---- MODULE Spec2Model ----
(* Model of LineTab (src/bokeh_app/linetab.py): the reactive tab that           *)
(* recomputes a grouped, averaged dataset from the current widget state and    *)
(* writes it into the chart's ColumnDataSource.                                *)
(*                                                                             *)
(* Categorical values are modelled by integer codes whose numeric order is the *)
(* order pandas sorts them in.  A mean is an exact fraction in lowest terms.   *)
(* A ColumnDataSource's data is a dict column -> list.                         *)
EXTENDS Integers, Sequences, FiniteSets, TLC

VARIABLES state, data, segments, metrics, set_order,
          widgets, callbacks, segment_select, metric_select, segment_filters,
          source, source_data, bokeh_plot, plot_source,
          error, update_calls, events

vars == <<state, data, segments, metrics, set_order,
          widgets, callbacks, segment_select, metric_select, segment_filters,
          source, source_data, bokeh_plot, plot_source,
          error, update_calls, events>>

-----------------------------------------------------------------------------
(* Bounds *)
MaxRows == 2
MaxEvents == 2
MaxRepeat == 2

-----------------------------------------------------------------------------
(* Program constants and input universe *)

x_axis == "month"

Category20_20 ==
  << "#1f77b4", "#aec7e8", "#ff7f0e", "#ffbb78", "#2ca02c", "#98df8a",
     "#d62728", "#ff9896", "#9467bd", "#c5b0d5", "#8c564b", "#c49c94",
     "#e377c2", "#f7b6d2", "#7f7f7f", "#c7c7c7", "#bcbd22", "#dbdb8d",
     "#17becf", "#9edae5" >>

Range(s) == {s[i] : i \in DOMAIN s}

NoData == [c \in {} |-> <<>>]

(* Free object identities: the allocator hands out the lowest free one. *)
ObjIds == {1, 2, 3}
NewObject(live) == CHOOSE i \in ObjIds : i \notin live /\ \A j \in ObjIds \ live : i <= j

-----------------------------------------------------------------------------
(* pandas / Python helpers, computed the way the code computes them *)

RECURSIVE GCD(_, _)
GCD(a, b) == IF b = 0 THEN a ELSE GCD(b, a % b)

RECURSIVE Sum(_)
Sum(s) == IF s = <<>> THEN 0 ELSE Head(s) + Sum(Tail(s))

(* Series.mean(): sum / count, kept exact as a fraction in lowest terms *)
Mean(s) ==
  LET t == Sum(s)
      n == Len(s)
      g == GCD(t, n)
  IN [num |-> t \div g, den |-> n \div g]

(* list(set(values)): the distinct values, in the iteration order of the set, *)
(* which the process-wide hash order set_order fixes                          *)
RECURSIVE SetList(_, _)
SetList(S, order) ==
  IF S = {} THEN <<>>
  ELSE LET v == CHOOSE e \in S : \A o \in S : order[e] <= order[o]
       IN <<v>> \o SetList(S \ {v}, order)

(* df.loc[df[col].isin(allowed)] *)
Isin(df, col, allowed) == SelectSeq(df, LAMBDA r : r[col] \in Range(allowed))

(* the filtering loop of make_dataset over the dict's items, in dict order *)
RECURSIVE FilterLoop(_, _)
FilterLoop(df, segments_to_filter) ==
  IF segments_to_filter = <<>> THEN df
  ELSE FilterLoop(Isin(df, Head(segments_to_filter)[1], Head(segments_to_filter)[2]),
                  Tail(segments_to_filter))

(* ascending list of the distinct values of a set of integers *)
RECURSIVE Ascending(_)
Ascending(S) ==
  IF S = {} THEN <<>>
  ELSE LET v == CHOOSE e \in S : \A o \in S : e <= o
       IN <<v>> \o Ascending(S \ {v})

(* df[[metric, x_axis]].groupby(x_axis).mean().reset_index(), metric renamed *)
GroupbyMean(df, metric) ==
  LET keys == Ascending({r[x_axis] : r \in Range(df)})
  IN [i \in 1..Len(keys) |->
        LET grp == SelectSeq(df, LAMBDA r : r[x_axis] = keys[i])
        IN [index  |-> i - 1,
            month  |-> keys[i],
            metric |-> Mean([k \in 1..Len(grp) |-> grp[k][metric]])]]

(* a lookup that wraps around the palette instead of raising *)
PaletteAtWrapping(i) == Category20_20[(i % Len(Category20_20)) + 1]

(* Category20_20[i] for a Python index i >= 0: past the end it raises *)
PaletteAt(i) ==
  IF i < Len(Category20_20) THEN Category20_20[i + 1] ELSE "IndexError"

(* one pass of the loop body: the averaged frame of one segment value *)
SegmentAverage(df, segment, metric, segment_value, i) ==
  LET segment_data == SelectSeq(df, LAMBDA r : r[segment] = segment_value)
      avg == GroupbyMean(segment_data, metric)
  IN [k \in 1..Len(avg) |->
        [index  |-> avg[k].index,
         month  |-> avg[k].month,
         metric |-> avg[k].metric,
         name   |-> segment_value,
         color  |-> PaletteAt(i)]]

(* pd.concat(dataframes) *)
RECURSIVE Concat(_)
Concat(dataframes) ==
  IF dataframes = <<>> THEN <<>> ELSE Head(dataframes) \o Concat(Tail(dataframes))

RowLeq(a, b) == a.name < b.name \/ (a.name = b.name /\ a[x_axis] <= b[x_axis])

RECURSIVE Insert(_, _)
Insert(r, sorted) ==
  IF sorted = <<>> THEN <<r>>
  ELSE IF RowLeq(r, Head(sorted)) THEN <<r>> \o sorted
  ELSE <<Head(sorted)>> \o Insert(r, Tail(sorted))

(* the concatenated frames left in enumeration order *)
SortValuesSkipped(df) == df

(* datasource.sort_values(["name", x_axis]) *)
RECURSIVE SortValues(_)
SortValues(df) ==
  IF df = <<>> THEN <<>> ELSE Insert(Head(df), SortValues(Tail(df)))

Columns == {"index", x_axis, "metric", "name", "color"}

(* ColumnDataSource(datasource): one list per column *)
ColumnDataSource(df) == [c \in Columns |-> [i \in 1..Len(df) |-> df[i][c]]]

(* the filtering applied to self.data itself *)
SelfDataFilteredInPlace(df, segments_to_filter) == FilterLoop(df, segments_to_filter)

(* self.data as make_dataset leaves it: the filtering works on self.data.copy() *)
SelfDataAfter(df, segments_to_filter) == df

(* LineTab.make_dataset: the exception raised ("none" if it returns) and the  *)
(* data of the returned ColumnDataSource                                      *)
make_dataset(df, segment, metric, segments_to_filter, order) ==
  LET data_filtered  == FilterLoop(df, segments_to_filter)
      segment_values == SetList({r[segment] : r \in Range(data_filtered)}, order)
  IN IF \E i \in 1..Len(segment_values) : PaletteAt(i - 1) = "IndexError"
       THEN [raised |-> "IndexError", data |-> NoData]
     ELSE IF segment_values = <<>>
       THEN [raised |-> "ValueError", data |-> NoData]
     ELSE LET dataframes == [i \in 1..Len(segment_values) |->
                               SegmentAverage(data_filtered, segment, metric,
                                              segment_values[i], i - 1)]
              datasource == SortValues(Concat(dataframes))
          IN [raised |-> "none", data |-> ColumnDataSource(datasource)]

(* the new values appended to the old columns *)
DictExtend(old, new) ==
  [k \in (DOMAIN old) \cup (DOMAIN new) |->
     IF k \in DOMAIN new /\ k \in DOMAIN old THEN old[k] \o new[k]
     ELSE IF k \in DOMAIN new THEN new[k] ELSE old[k]]

(* dict.update: every key of new replaces or adds that key in old *)
DictUpdate(old, new) ==
  [k \in (DOMAIN old) \cup (DOMAIN new) |-> IF k \in DOMAIN new THEN new[k] ELSE old[k]]

(* [labels[i] for i in active] for every segment, as update and               *)
(* _initialize_tab build it; Python's index i is position i + 1 here          *)
ActiveLabels(filter) ==
  LET act == Ascending(filter.active)
  IN [k \in 1..Len(act) |-> filter.labels[act[k] + 1]]

SegmentsToFilter(segs, filters) ==
  [k \in 1..Len(segs) |-> <<segs[k], ActiveLabels(filters[segs[k]])>>]


(* update binding self.source to the new ColumnDataSource *)
update_rebinding(src, src_data, md, new_id) ==
  IF md.raised # "none"
    THEN [error |-> md.raised, source |-> src, source_data |-> src_data]
    ELSE [error |-> "none", source |-> new_id, source_data |-> md.data]

(* update emptying the container's columns before it computes the dataset *)
update_clearing_first(src, src_data, md, new_id) ==
  LET cleared == [c \in DOMAIN src_data |-> <<>>]
  IN IF md.raised # "none"
       THEN [error |-> md.raised, source |-> src, source_data |-> cleared]
       ELSE [error |-> "none", source |-> src,
             source_data |-> DictUpdate(cleared, md.data)]

(* LineTab.update, given the outcome md of its make_dataset call and the      *)
(* identity new_id of the ColumnDataSource that call created: the fields of   *)
(* the tab afterwards and the exception that left the handler                 *)
update(src, src_data, md, new_id) ==
  IF md.raised # "none"
    THEN [error |-> md.raised, source |-> src, source_data |-> src_data]
    ELSE [error |-> "none", source |-> src,
          source_data |-> DictUpdate(src_data, md.data)]

(* the CheckboxGroup built for one segment column *)
CheckboxGroup(df, segment, order) ==
  LET available_segments == SetList({r[segment] : r \in Range(df)}, order)
  IN [labels |-> available_segments,
      active |-> {i - 1 : i \in 1..Len(available_segments)}]

NoFilters == [s \in {} |-> 0]

(* LineTab._initialize_tab, run by __init__: the tab's fields when it returns *)
(* or when an exception leaves it                                             *)
_initialize_tab(df, segs, mets, order) ==
  LET blank == [state |-> "InitFailed", error |-> "IndexError",
                widgets |-> {}, callbacks |-> {},
                segment_select |-> "", metric_select |-> "",
                segment_filters |-> NoFilters,
                source |-> 0, source_data |-> NoData,
                bokeh_plot |-> 0, plot_source |-> 0]
  IN IF segs = <<>> THEN blank
     ELSE LET w1 == [blank EXCEPT !.widgets = {<<"segment_select">>},
                                  !.callbacks = {<<"segment_select">>},
                                  !.segment_select = segs[1]]
          IN IF mets = <<>> THEN w1
             ELSE LET fnames == {<<"segment_filters", segs[k]>> : k \in 1..Len(segs)}
                      filters == [s \in Range(segs) |-> CheckboxGroup(df, s, order)]
                      w2 == [w1 EXCEPT
                               !.widgets = @ \cup {<<"metric_select">>} \cup fnames,
                               !.callbacks = @ \cup {<<"metric_select">>} \cup fnames,
                               !.metric_select = mets[1],
                               !.segment_filters = filters]
                      md == make_dataset(df, segs[1], mets[1],
                                         SegmentsToFilter(segs, filters), order)
                      sid == NewObject({})
                      pid == NewObject({sid})
                  IN IF md.raised # "none"
                       THEN [w2 EXCEPT !.error = md.raised]
                       ELSE [w2 EXCEPT !.state = "Initialized", !.error = "none",
                                       !.source = sid, !.source_data = md.data,
                                       !.bokeh_plot = pid, !.plot_source = sid]

-----------------------------------------------------------------------------
(* Inputs *)

RowUniverse ==
  [month : {1, 2}, year : {1, 2}, Category : {1, 2}, Sales : {1, 2}, Quantity : {3}]

SmallData == UNION {[1..n -> RowUniverse] : n \in 0..MaxRows}

(* n rows with n distinct values in one segment column, to reach the end of *)
(* the palette                                                              *)
WideData(n, col) ==
  [i \in 1..n |->
     [[month |-> 1, year |-> 1, Category |-> 1, Sales |-> i, Quantity |-> 3]
        EXCEPT ![col] = i]]

Datasets ==
  SmallData \cup {WideData(n, col) : n \in {Len(Category20_20), Len(Category20_20) + 1},
                                     col \in {"year", "Category"}}

Values == 1..(Len(Category20_20) + 1)

HashOrders == {[v \in Values |-> v], [v \in Values |-> Len(Category20_20) + 2 - v]}

SegmentLists == {<<>>, <<"year", "Category">>}
MetricLists == {<<>>, <<"Sales", "Quantity">>}

UpdateArgs == {<<"value", "year", "Category">>, <<"active", <<0>>, <<>>>>}

-----------------------------------------------------------------------------
(* State machine *)

Init ==
  /\ state = "Uninitialized"
  /\ data \in Datasets
  /\ segments \in SegmentLists
  /\ metrics \in MetricLists
  /\ set_order \in HashOrders
  /\ widgets = {} /\ callbacks = {}
  /\ segment_select = "" /\ metric_select = ""
  /\ segment_filters = NoFilters
  /\ source = 0 /\ source_data = NoData
  /\ bokeh_plot = 0 /\ plot_source = 0
  /\ error = "none" /\ update_calls = 0 /\ events = 0

(* LineTab.__init__ *)
Construct ==
  /\ state = "Uninitialized"
  /\ LET t == _initialize_tab(data, segments, metrics, set_order)
     IN /\ state' = t.state
        /\ error' = t.error
        /\ widgets' = t.widgets
        /\ callbacks' = t.callbacks
        /\ segment_select' = t.segment_select
        /\ metric_select' = t.metric_select
        /\ segment_filters' = t.segment_filters
        /\ source' = t.source
        /\ source_data' = t.source_data
        /\ bokeh_plot' = t.bokeh_plot
        /\ plot_source' = t.plot_source
        /\ data' = IF segments # <<>> /\ metrics # <<>>
                     THEN SelfDataAfter(data, SegmentsToFilter(segments, t.segment_filters))
                     ELSE data
  /\ update_calls' = 0
  /\ UNCHANGED <<segments, metrics, set_order, events>>

(* the body of update, run on the widget state sel / met / filters *)
RunUpdate(sel, met, filters) ==
  LET md == make_dataset(data, sel, met, SegmentsToFilter(segments, filters), set_order)
      u  == update(source, source_data, md, NewObject({source, bokeh_plot}))
  IN /\ error' = u.error
     /\ source' = u.source
     /\ source_data' = u.source_data
     /\ data' = SelfDataAfter(data, SegmentsToFilter(segments, filters))
     /\ UNCHANGED <<state, segments, metrics, set_order, widgets, callbacks,
                    bokeh_plot, plot_source>>

(* the user picks another segment: the Select's value changes, then its       *)
(* "value" callback runs                                                      *)
SegmentSelectChange(v) ==
  /\ state = "Initialized" /\ events < MaxEvents
  /\ <<"segment_select">> \in callbacks
  /\ v \in Range(segments) /\ v # segment_select
  /\ segment_select' = v
  /\ events' = events + 1
  /\ update_calls' = 1
  /\ UNCHANGED <<metric_select, segment_filters>>
  /\ RunUpdate(v, metric_select, segment_filters)

MetricSelectChange(v) ==
  /\ state = "Initialized" /\ events < MaxEvents
  /\ <<"metric_select">> \in callbacks
  /\ v \in Range(metrics) /\ v # metric_select
  /\ metric_select' = v
  /\ events' = events + 1
  /\ update_calls' = 1
  /\ UNCHANGED <<segment_select, segment_filters>>
  /\ RunUpdate(segment_select, v, segment_filters)

(* the user clicks checkbox i of the filter of segment s *)
FilterChange(s, i) ==
  /\ state = "Initialized" /\ events < MaxEvents
  /\ <<"segment_filters", s>> \in callbacks
  /\ i \in 0..(Len(segment_filters[s].labels) - 1)
  /\ LET old == segment_filters[s].active
         new == IF i \in old THEN old \ {i} ELSE old \cup {i}
         filters == [segment_filters EXCEPT ![s].active = new]
     IN /\ segment_filters' = filters
        /\ RunUpdate(segment_select, metric_select, filters)
  /\ events' = events + 1
  /\ update_calls' = 1
  /\ UNCHANGED <<segment_select, metric_select>>

(* update called directly, with any arguments, on an unchanged widget state; *)
(* update_calls counts the calls made since the widget state last changed    *)
Update(attr, old, new) ==
  /\ state = "Initialized" /\ update_calls < MaxRepeat
  /\ update_calls' = update_calls + 1
  /\ UNCHANGED <<segment_select, metric_select, segment_filters, events>>
  /\ RunUpdate(segment_select, metric_select, segment_filters)

Next ==
  \/ Construct
  \/ \E v \in {"year", "Category"} : SegmentSelectChange(v)
  \/ \E v \in {"Sales", "Quantity"} : MetricSelectChange(v)
  \/ \E s \in {"year", "Category"}, i \in 0..Len(Category20_20) : FilterChange(s, i)
  \/ \E a \in UpdateArgs : Update(a[1], a[2], a[3])

Spec == Init /\ [][Next]_vars

-----------------------------------------------------------------------------
(* Vocabulary of the properties *)

(* the rows of a ColumnDataSource's data *)
Rows(cds) == [i \in 1..Len(cds["name"]) |-> [c \in Columns |-> cds[c][i]]]

(* make_dataset has been called on the current widget state: by              *)
(* _initialize_tab once every widget exists, and by update                   *)
Called == state = "Initialized" \/ (state = "InitFailed" /\ <<"metric_select">> \in widgets)

(* the outcome of that call *)
MdNow ==
  make_dataset(data, segment_select, metric_select,
               SegmentsToFilter(segments, segment_filters), set_order)

(* the values a filter currently lets through *)
Allowed(s) == {segment_filters[s].labels[i + 1] : i \in segment_filters[s].active}

(* the source rows that pass every filter *)
Kept == {i \in DOMAIN data : \A s \in Range(segments) : data[i][s] \in Allowed(s)}

Group(n, xv) == {i \in Kept : data[i][segment_select] = n /\ data[i][x_axis] = xv}

RECURSIVE SumOf(_, _)
SumOf(S, col) ==
  IF S = {} THEN 0
  ELSE LET i == CHOOSE j \in S : TRUE IN data[i][col] + SumOf(S \ {i}, col)

(* R holds exactly one row per (segment value, x value) pair of the kept     *)
(* rows, carrying the mean of the selected metric over that group            *)
OneRowPerGroupWithMean(R) ==
  /\ \A i \in Kept :
       LET n == data[i][segment_select]
           xv == data[i][x_axis]
       IN Cardinality({k \in DOMAIN R : R[k].name = n /\ R[k][x_axis] = xv}) = 1
  /\ \A k \in DOMAIN R :
       LET g == Group(R[k].name, R[k][x_axis])
       IN /\ g # {}
          /\ R[k].metric.num * Cardinality(g) = SumOf(g, metric_select) * R[k].metric.den

Sorted(R) ==
  \A i, j \in DOMAIN R :
    i < j => \/ R[i].name < R[j].name
             \/ (R[i].name = R[j].name /\ R[i][x_axis] <= R[j][x_axis])

(* the enumeration of the distinct segment values left after filtering *)
Enumeration == SetList({data[i][segment_select] : i \in Kept}, set_order)

PositionIn(seq, v) == CHOOSE k \in DOMAIN seq : seq[k] = v

(* the dataset the same tab shows with every checkbox ticked *)
AllActive ==
  make_dataset(data, segment_select, metric_select,
               [k \in 1..Len(segments) |->
                  <<segments[k], segment_filters[segments[k]].labels>>], set_order)

-----------------------------------------------------------------------------
(* Properties *)

(* C1: whenever the filters remove every row of a non-empty source dataset,   *)
(* make_dataset returns a derived dataset with zero rows and does not fail.   *)
C1_EmptyFilterReturnsZeroRows ==
  (Called /\ data # <<>> /\ Kept = {}) =>
     (MdNow.raised = "none" /\ Len(MdNow.data["name"]) = 0)

(* C2: for every segment, metric and filters, make_dataset returns exactly    *)
(* one row per (segment value, x value) pair of the filtered source rows, no  *)
(* other row, with the mean of the selected metric over that group.           *)
C2_OneRowPerGroupWithMean ==
  state = "Initialized" =>
     (MdNow.raised = "none" /\ OneRowPerGroupWithMean(Rows(MdNow.data)))

(* C3: once the tab is initialized no step rebinds the tab's source or chart, *)
(* and the chart stays bound to that same source object.                      *)
C3_IdentityPreserved ==
  [][state = "Initialized" =>
       /\ source' = source
       /\ bokeh_plot' = bokeh_plot
       /\ plot_source' = plot_source
       /\ plot_source' = source']_vars

C3_Witness ==
  /\ state = "Initialized" /\ events >= 1 /\ error = "none"
  /\ source_data # AllActive.data

(* C4: constructing a tab with an empty segment list or an empty metric list  *)
(* fails with no widget constructed and no change callback registered.        *)
C4_FailsBeforeAnyWidget ==
  (state # "Uninitialized" /\ (segments = <<>> \/ metrics = <<>>)) =>
     (state = "InitFailed" /\ widgets = {} /\ callbacks = {})

(* C5: after update has processed a call, the chart's data container holds    *)
(* make_dataset of the current segment, metric and active filter values.      *)
C5_ContainerShowsCurrentState ==
  (state = "Initialized" /\ update_calls >= 1) =>
     (MdNow.raised = "none" /\ source_data = MdNow.data)

(* C6: a call of update that follows a call of update with no widget change  *)
(* in between leaves the container's contents, and the outcome, as they were. *)
C6_UpdateIdempotent ==
  [][(state = "Initialized" /\ update_calls >= 1 /\ update_calls' = update_calls + 1) =>
       (source_data' = source_data /\ error' = error)]_vars

C6_Witness ==
  /\ state = "Initialized" /\ update_calls >= 2 /\ events >= 1
  /\ error = "none" /\ Len(source_data["name"]) >= 1

(* C7: no step changes the source dataset held by the tab. *)
C7_SourceDatasetUnchanged == [][data' = data]_vars

C7_Witness ==
  /\ state = "Initialized" /\ update_calls >= 1 /\ error = "none"
  /\ Kept # {} /\ Kept # DOMAIN data

(* C8: the rows make_dataset returns, and the rows of the chart's container   *)
(* after initialization and after every update, ascend by name, then by x.    *)
C8_RowsSorted ==
  /\ (Called /\ MdNow.raised = "none") => Sorted(Rows(MdNow.data))
  /\ state = "Initialized" => Sorted(Rows(source_data))

C8_Witness ==
  /\ state = "Initialized" /\ update_calls >= 1 /\ error = "none"
  /\ Len(Enumeration) >= 2
  /\ Enumeration[1] > Enumeration[2]
  /\ \E i, j \in DOMAIN source_data["name"] :
        source_data[x_axis][i] < source_data[x_axis][j]

(* C9: each row has the palette colour at the position of its name in the     *)
(* enumeration of the segment values left after filtering, so two rows share  *)
(* a colour exactly when they share a name; the palette has 20 entries, and   *)
(* with more than 20 segment values left make_dataset raises.                 *)
C9_ColourByEnumeration ==
  Called =>
    /\ Len(Category20_20) = 20
    /\ Len(Enumeration) > 20 => MdNow.raised = "IndexError"
    /\ (Len(Enumeration) \in 1..20) =>
          /\ MdNow.raised = "none"
          /\ LET R == Rows(MdNow.data)
             IN /\ \A k \in DOMAIN R :
                     R[k].color = Category20_20[PositionIn(Enumeration, R[k].name)]
                /\ \A k, l \in DOMAIN R :
                     (R[k].color = R[l].color) <=> (R[k].name = R[l].name)

(* a segment value whose colour differs from its colour with every box ticked *)
C9_Witness ==
  /\ state = "Initialized" /\ error = "none" /\ AllActive.raised = "none"
  /\ \E i \in DOMAIN source_data["name"], j \in DOMAIN AllActive.data["name"] :
        /\ source_data["name"][i] = AllActive.data["name"][j]
        /\ source_data["color"][i] # AllActive.data["color"][j]

(* C10: a call of update in which make_dataset raises ends with that error    *)
(* and with the container's contents as they were before the call.            *)
C10_FailedUpdateLeavesContainer ==
  /\ [](state = "Initialized" /\ update_calls >= 1 /\ MdNow.raised # "none"
          => error = MdNow.raised)
  /\ [][(state = "Initialized" /\ update_calls' >= 1 /\ error' # "none") =>
          source_data' = source_data]_vars

C10_Witness ==
  /\ state = "Initialized" /\ update_calls >= 1 /\ error # "none"
  /\ Len(source_data["name"]) >= 1

====
